---- MODULE Spec2Model ----
(***************************************************************************)
(* Model of the oa_cohorts rule compiler: QueryRule predicates, Subquery   *)
(* row-set shapes, the Measure tree compiler (MeasureSQLCompiler), the     *)
(* MeasureExecutor cache and the Indicator member properties.              *)
(*                                                                         *)
(* A compiled SQL query is modelled by its denotation over the source      *)
(* table: the set of output column labels plus the bag (multiset) of rows  *)
(* the statement returns.  A compilation that raises is a result with      *)
(* ok = FALSE and the error text.                                          *)
(***************************************************************************)
EXTENDS Integers, Sequences, FiniteSets, Bags, TLC

\* ---------------------------------------------------------------- bounds
MaxEpisode == 2
MaxDate == 2
MaxRows == 2
MaxCalls == 2

\* ------------------------------------------------------------ bag helpers
RECURSIVE SumOver(_, _)
SumOver(S, B) ==
    IF S = {} THEN 0
    ELSE LET x == CHOOSE y \in S : TRUE IN B[x] + SumOver(S \ {x}, B)

\* number of rows in a row bag
Size(B) == SumOver(DOMAIN B, B)

\* multiplicity of a row in a row bag
Copies(B, r) == IF r \in DOMAIN B THEN B[r] ELSE 0

\* SELECT F(x) FROM B WHERE P(x)   (bag semantics: multiplicities are kept)
SelectWhere(B, F(_), P(_)) ==
    LET src == {x \in DOMAIN B : P(x)}
        img == {F(x) : x \in src}
    IN [y \in img |-> SumOver({x \in src : F(x) = y}, B)]

RECURSIVE BagSum(_)
BagSum(parts) ==
    IF parts = <<>> THEN EmptyBag ELSE Head(parts) (+) BagSum(Tail(parts))

BagMin(a, b) ==
    LET d == {x \in DOMAIN a \cap DOMAIN b : TRUE}
    IN [x \in d |-> IF a[x] < b[x] THEN a[x] ELSE b[x]]

MaxOf(a, b) == IF a >= b THEN a ELSE b
MinOfSet(S) == CHOOSE x \in S : \A y \in S : x <= y
MaxOfSet(S) == CHOOSE x \in S : \A y \in S : x >= y

\* ------------------------------------------------------------ source data
\* NULL marker of a nullable value column
NULL == -1

\* condition episodes 11, 21, 12, 22, ...: episode 10 * p + k is the k-th
\* episode of person p, so episode ids are disjoint from person ids
EpisodeOwner(e) == e \div 10
Episodes == {10 * (((i - 1) % 2) + 1) + ((i - 1) \div 2) + 1 : i \in 1..MaxEpisode}
Persons == {EpisodeOwner(e) : e \in Episodes}
Dates == 1..MaxDate
\* the concept ids the rules of the fixtures refer to
Concepts == {1, 2}

\* one row of the measurable's backing table (AnyConditionMeasurable)
SourceRows ==
    {[person_id |-> EpisodeOwner(e), episode_id |-> e,
      event_date |-> d, value_concept |-> c] :
        e \in Episodes, d \in Dates, c \in Concepts}

\* all tables with at most n rows, as bags
RECURSIVE TablesUpTo(_)
TablesUpTo(n) ==
    IF n = 0 THEN {EmptyBag}
    ELSE LET smaller == TablesUpTo(n - 1)
         IN smaller \cup {t (+) SetToBag({r}) : t \in smaller, r \in SourceRows}

\* ------------------------------------------------------ compile results
Ok(cols, rows) == [ok |-> TRUE, err |-> "", cols |-> cols, rows |-> rows]
Raise(e) == [ok |-> FALSE, err |-> e, cols |-> {}, rows |-> EmptyBag]

RECURSIVE FirstError(_)
\* the first failure in a list of results built left to right, "" if none
FirstError(parts) ==
    IF parts = <<>> THEN ""
    ELSE IF ~Head(parts).ok THEN Head(parts).err
    ELSE FirstError(Tail(parts))

AllOk(parts) == \A i \in DOMAIN parts : parts[i].ok
RowsOf(parts) == [i \in DOMAIN parts |-> parts[i].rows]

\* ------------------------------------------------------ measurable binding
\* BoundMeasurableSpec of AnyConditionMeasurable: no numeric value column
AnyConditionMeasurable ==
    [name |-> "AnyConditionMeasurable",
     person_id_col |-> "person_id",
     episode_id_col |-> "episode_id",
     event_date_col |-> "event_date",
     value_numeric_col |-> "None",
     value_concept_col |-> "value_concept",
     value_string_col |-> "value_string"]

\* BoundMeasurableSpec of MeasurementMeasurable: a concept value column only
MeasurementMeasurable ==
    [name |-> "MeasurementMeasurable",
     person_id_col |-> "person_id",
     episode_id_col |-> "episode_id",
     event_date_col |-> "event_date",
     value_numeric_col |-> "None",
     value_concept_col |-> "value_concept",
     value_string_col |-> "None"]

\* get_measurable_registry(): RuleTarget -> measurable class
get_measurable_registry ==
    [t \in {"dx_any", "dx_primary", "meas_concept"} |->
        IF t = "meas_concept" THEN MeasurementMeasurable
        ELSE AnyConditionMeasurable]

\* MeasurableBase.table_selectables: label -> bound column.  The
\* ep_override argument is accepted and not used.
table_selectables(cls, ep_override) ==
    [person_id |-> cls.person_id_col,
     episode_id |-> cls.episode_id_col,
     measure_resolver |-> cls.episode_id_col]

\* faulty variant of filter_table: the temporal anchor selected as well
filter_table_with_date(cls, ep_override) ==
    [person_id |-> cls.person_id_col,
     episode_id |-> cls.episode_id_col,
     measure_resolver |-> cls.episode_id_col,
     measure_date |-> cls.event_date_col]

\* MeasurableBase.filter_table
filter_table(cls, ep_override) == table_selectables(cls, ep_override)

\* MeasurableBase.temporal_anchor: no temporality_map is bound, so the
\* anchor is the event date column
temporal_anchor(cls) == cls.event_date_col

\* MeasurableBase.filter_table_dated
filter_table_dated(cls, ep_override) ==
    [person_id |-> filter_table(cls, ep_override).person_id,
     episode_id |-> filter_table(cls, ep_override).episode_id,
     measure_resolver |-> filter_table(cls, ep_override).measure_resolver,
     measure_date |-> temporal_anchor(cls)]

\* SELECT list applied to one source row
Project(sel, row) == [l \in DOMAIN sel |-> row[sel[l]]]

\* ------------------------------------------------------------ query rules
\* QueryRule.requires_numeric / requires_string
requires_numeric(rule) == rule.matcher = "scalar"
requires_string(rule) == rule.matcher = "substring"

\* text values: a character is a letter 1..9, or 10 + letter for its upper
\* case; a string column holds the id of a text, so that no text equals a
\* concept id
StringIds == {101, 102}
Text == [v \in StringIds |-> IF v = 101 THEN <<1, 2>> ELSE <<2>>]
\* Concept.concept_code of the fixtures' concepts, in upper case
concept_code(c) == <<10 + c>>
Fold(t) == [i \in DOMAIN t |-> t[i] % 10]
Contains(hay, needle) ==
    \E i \in 0..(Len(hay) - Len(needle)) :
        SubSeq(hay, i + 1, i + Len(needle)) = needle
\* field ILIKE '%pat%'
ilike(v, pat) == v \in StringIds /\ Contains(Fold(Text[v]), Fold(pat))

\* ScalarRule.scalar_field: the numeric column of the measurable registered
\* for the rule's threshold_comparator ("None" when it has none)
scalar_field(rule) ==
    get_measurable_registry[rule.threshold_comparator].value_numeric_col

\* ScalarRule.get_filter_details raising, in the order of its checks
ScalarError(rule) ==
    IF rule.scalar_threshold = NULL THEN "Scalar threshold is not set"
    ELSE IF ~rule.concept THEN "Rule concept not found"
    ELSE IF rule.threshold_direction = "None"
    THEN "Threshold direction is not set"
    ELSE IF rule.threshold_comparator = "None"
    THEN "Threshold comparator is not set"
    ELSE IF scalar_field(rule) = "None"
    THEN "does not expose a numeric value column"
    ELSE ""

\* <Rule>.get_filter_details raising: the rule's Concept row is not loaded,
\* or the scalar rule's own checks
RuleError(rule) ==
    IF rule.matcher \in {"exact", "hierarchy", "hierarchyexclusion",
                         "substring"}
       /\ ~rule.concept
    THEN "Rule concept not found"
    ELSE IF rule.matcher = "scalar" THEN ScalarError(rule)
    ELSE ""

\* <Rule>.get_filter_details(field) evaluated on one field value, with
\* SQL's three-valued logic: a comparison with NULL selects nothing
get_filter_details(rule, v) ==
    CASE rule.matcher = "exact" -> v # NULL /\ v = rule.concept_id
      [] rule.matcher = "hierarchy" -> v # NULL /\ v \in rule.children
      [] rule.matcher = "hierarchyexclusion" ->
            v # NULL /\ v \notin rule.children
      [] rule.matcher = "absence" -> v = NULL
      [] rule.matcher = "presence" -> v # NULL
      [] rule.matcher = "substring" -> ilike(v, concept_code(rule.concept_id))
      [] OTHER -> FALSE

\* ScalarRule.get_filter_details: the concept clause on `field` (value v) and
\* the threshold comparison on the rule's scalar_field (value w)
scalar_filter(rule, v, w) ==
    /\ v # NULL
    /\ rule.concept_id = 0 \/ v = rule.concept_id
    /\ w # NULL
    /\ CASE rule.threshold_direction = "gt" -> w > rule.scalar_threshold
         [] rule.threshold_direction = "lt" -> w < rule.scalar_threshold
         [] rule.threshold_direction = "eq" -> w = rule.scalar_threshold
         [] OTHER -> w # rule.scalar_threshold

\* rule.get_filter_details(field) as a predicate on one source row
RulePredicate(rule, field, row) ==
    IF rule.matcher = "scalar"
    THEN scalar_filter(rule, row[field], row[scalar_field(rule)])
    ELSE get_filter_details(rule, row[field])

ExactRule(id, c) ==
    [query_rule_id |-> id, matcher |-> "exact", concept_id |-> c,
     concept |-> TRUE, children |-> {}]
PresenceRule(id) ==
    [query_rule_id |-> id, matcher |-> "presence", concept_id |-> 0,
     concept |-> FALSE, children |-> {}]
AbsenceRule(id) ==
    [query_rule_id |-> id, matcher |-> "absence", concept_id |-> 0,
     concept |-> FALSE, children |-> {}]
HierarchyRule(id, c, desc) ==
    [query_rule_id |-> id, matcher |-> "hierarchy", concept_id |-> c,
     concept |-> TRUE, children |-> desc]
HierarchyExclusionRule(id, c, desc) ==
    [query_rule_id |-> id, matcher |-> "hierarchyexclusion", concept_id |-> c,
     concept |-> TRUE, children |-> desc]
ScalarRule(id, c) ==
    [query_rule_id |-> id, matcher |-> "scalar", concept_id |-> c,
     concept |-> TRUE, children |-> {}, scalar_threshold |-> 1,
     threshold_direction |-> "gt", threshold_comparator |-> "meas_concept"]
SubstringRule(id, c) ==
    [query_rule_id |-> id, matcher |-> "substring", concept_id |-> c,
     concept |-> TRUE, children |-> {}]

\* ------------------------------------------------------------------ state
VARIABLES
    db,                  \* rows of the measurable's backing table (a bag)
    combination,         \* Measure.combination of every measure
    person_ep_override,  \* Measure.person_ep_override of every measure
    pc,                  \* "ready" before a compiler call, "done" after it
    out,                 \* the compiler call made and what it returned
    cache,               \* MeasureExecutor._cache of every executor
    members,             \* Measure._members of every measure
    ret,                 \* the last MeasureExecutor.execute call and its outcome
    store_calls,         \* db.execute(...) calls issued so far
    ncalls,              \* execute calls made so far
    hist,                \* per executor and measure: its first two execute calls
    last_ok              \* per measure: what its latest returning execute returned

\* -------------------------------------------------------------- fixtures
\* Subquery rows: subquery_id -> target and ordered rule list
\* 3 has no rule, 4 a scalar rule on a binding without numeric column, 5 two
\* rules no row satisfies together, 6 a substring rule on a binding without
\* string column
Subqueries ==
    [i \in 1..6 |->
        CASE i = 1 -> [subquery_id |-> 1, target |-> "dx_any",
                       rules |-> <<ExactRule(1, 1)>>]
          [] i = 2 -> [subquery_id |-> 2, target |-> "dx_any",
                       rules |-> <<ExactRule(2, 2), HierarchyRule(3, 1, {2})>>]
          [] i = 3 -> [subquery_id |-> 3, target |-> "dx_any", rules |-> <<>>]
          [] i = 4 -> [subquery_id |-> 4, target |-> "dx_any",
                       rules |-> <<ExactRule(4, 1), ScalarRule(5, 1)>>]
          [] i = 5 -> [subquery_id |-> 5, target |-> "dx_primary",
                       rules |-> <<ExactRule(6, 1), ExactRule(7, 2)>>]
          [] i = 6 -> [subquery_id |-> 6, target |-> "meas_concept",
                       rules |-> <<SubstringRule(8, 1)>>]]

\* Subquery rows whose rules are evaluated on the string column of the
\* condition binding: 7 an exact and a substring rule, 8 a presence and a
\* substring rule
FieldSubqueries ==
    [i \in 7..8 |->
        IF i = 7 THEN [subquery_id |-> 7, target |-> "dx_any",
                       rules |-> <<ExactRule(9, 1), SubstringRule(10, 1)>>]
        ELSE [subquery_id |-> 8, target |-> "dx_primary",
              rules |-> <<PresenceRule(11), SubstringRule(12, 2)>>]]

\* Measure rows: measure_id -> bound subquery (0 = None) and ordered
\* children (MeasureRelationship edges).  Measure 0 is the full cohort, 5
\* has neither subquery nor children, 6 has both, 7 wraps the subquery
\* without rules, 8 and 9 the subqueries whose value column is not exposed.
Measures ==
    [m \in 0..9 |->
        CASE m = 1 -> [measure_id |-> 1, subquery |-> 1, children |-> <<>>]
          [] m = 2 -> [measure_id |-> 2, subquery |-> 2, children |-> <<>>]
          [] m = 3 -> [measure_id |-> 3, subquery |-> 0, children |-> <<1, 2>>]
          [] m = 4 -> [measure_id |-> 4, subquery |-> 0, children |-> <<3, 2>>]
          [] m = 6 -> [measure_id |-> 6, subquery |-> 1, children |-> <<2>>]
          [] m = 7 -> [measure_id |-> 7, subquery |-> 3, children |-> <<>>]
          [] m = 8 -> [measure_id |-> 8, subquery |-> 4, children |-> <<>>]
          [] m = 9 -> [measure_id |-> 9, subquery |-> 6, children |-> <<>>]
          [] OTHER -> [measure_id |-> m, subquery |-> 0, children |-> <<>>]]

MeasureIds == DOMAIN Measures
\* the full cohort, the measure tree and the empty measure
TreeMeasures == 0..5
\* the measures whose authored shape the compiler has to reject or accept
ShapeMeasures == 5..9
Composites ==
    {m \in MeasureIds : Measures[m].subquery = 0 /\ Measures[m].children # <<>>}
Combinations == {"or", "and", "except"}

\* --------------------------------------------------------------- Subquery
DatedCols == {"person_id", "episode_id", "measure_resolver", "measure_date"}
UndatedCols == {"person_id", "episode_id", "measure_resolver"}

\* faulty variant of filter_field: a missing numeric or string column falls
\* back to the concept column
filter_field_fallback(s, cls) ==
    LET use_numeric == \E i \in DOMAIN s.rules : requires_numeric(s.rules[i])
        use_string == \E i \in DOMAIN s.rules : requires_string(s.rules[i])
    IN IF use_numeric /\ cls.value_numeric_col # "None"
       THEN cls.value_numeric_col
       ELSE IF use_string /\ cls.value_string_col # "None"
       THEN cls.value_string_col
       ELSE cls.value_concept_col

\* faulty variant of filter_field: the concept column whatever the rules are
filter_field_concept(s, cls) == cls.value_concept_col

\* Subquery.filter_field: the one value column all rules are evaluated on
filter_field(s, cls) ==
    LET use_numeric == \E i \in DOMAIN s.rules : requires_numeric(s.rules[i])
        use_string == \E i \in DOMAIN s.rules : requires_string(s.rules[i])
    IN IF use_numeric THEN cls.value_numeric_col
       ELSE IF use_string THEN cls.value_string_col
       ELSE cls.value_concept_col

\* the `kind` filter_field reports when the chosen column is None
filter_kind(s) ==
    IF \E i \in DOMAIN s.rules : requires_numeric(s.rules[i]) THEN "numeric"
    ELSE IF \E i \in DOMAIN s.rules : requires_string(s.rules[i]) THEN "string"
    ELSE "concept"

\* the ValueError text of filter_field
FieldError(s, cls) ==
    CASE filter_kind(s) = "numeric" ->
            "does not expose required numeric value column"
      [] filter_kind(s) = "string" ->
            "does not expose required string value column"
      [] OTHER -> "does not expose required concept value column"

\* faulty variant of union_all: sa.union, which removes duplicate rows
union_distinct(parts) == SetToBag(BagToSet(BagSum(parts)))

\* sa.union_all(*selects)
union_all(parts) == BagSum(parts)

\* one element of the `selects` list: SELECT sel FROM table WHERE rule(field)
RuleSelect(sel, rule, field) ==
    SelectWhere(db, LAMBDA row : Project(sel, row),
                LAMBDA row : RulePredicate(rule, field, row))

RuleErrors(s) == [i \in DOMAIN s.rules |-> RuleError(s.rules[i])]

\* faulty variant of SubquerySelects: no rules gives a query without rows
SubquerySelects_empty(s, sel, cols) ==
    IF s.rules = <<>> THEN Ok(cols, EmptyBag)
    ELSE IF s.target \notin DOMAIN get_measurable_registry
    THEN Raise("No measurable registered for target")
    ELSE LET cls == get_measurable_registry[s.target]
             field == filter_field(s, cls)
         IN IF field = "None"
            THEN Raise(FieldError(s, cls))
            ELSE IF \E i \in DOMAIN s.rules : RuleErrors(s)[i] # ""
            THEN Raise(RuleErrors(s)[
                     MinOfSet({i \in DOMAIN s.rules : RuleErrors(s)[i] # ""})])
            ELSE Ok(cols, union_all(
                     [i \in DOMAIN s.rules |->
                         RuleSelect(sel, s.rules[i], field)]))

\* the selects of get_subquery_any / get_subquery_undated, after the
\* shared prefix (rules present, measurable registered, field exposed)
SubquerySelects(s, sel, cols) ==
    IF s.rules = <<>> THEN Raise("Subquery has no rules")
    ELSE IF s.target \notin DOMAIN get_measurable_registry
    THEN Raise("No measurable registered for target")
    ELSE LET cls == get_measurable_registry[s.target]
             field == filter_field(s, cls)
         IN IF field = "None"
            THEN Raise(FieldError(s, cls))
            ELSE IF \E i \in DOMAIN s.rules : RuleErrors(s)[i] # ""
            THEN Raise(RuleErrors(s)[
                     MinOfSet({i \in DOMAIN s.rules : RuleErrors(s)[i] # ""})])
            ELSE Ok(cols, union_all(
                     [i \in DOMAIN s.rules |->
                         RuleSelect(sel, s.rules[i], field)]))

\* Subquery.get_subquery_any
get_subquery_any(s, ep_override) ==
    SubquerySelects(s,
        IF s.target \in DOMAIN get_measurable_registry
        THEN filter_table_dated(get_measurable_registry[s.target], ep_override)
        ELSE <<>>,
        DatedCols)

\* Subquery.get_subquery_undated
get_subquery_undated(s, ep_override) ==
    SubquerySelects(s,
        IF s.target \in DOMAIN get_measurable_registry
        THEN filter_table(get_measurable_registry[s.target], ep_override)
        ELSE <<>>,
        UndatedCols)

GroupKey(r) ==
    [person_id |-> r.person_id, episode_id |-> r.episode_id,
     measure_resolver |-> r.measure_resolver]

\* faulty variant of GroupMin: MAX(measure_date) in place of MIN
GroupMax(sq) ==
    LET keys == {GroupKey(r) : r \in DOMAIN sq}
    IN SetToBag(
        {[person_id |-> k.person_id, episode_id |-> k.episode_id,
          measure_resolver |-> k.measure_resolver,
          measure_date |->
              MaxOfSet({r.measure_date : r \in {x \in DOMAIN sq : GroupKey(x) = k}})]
         : k \in keys})

\* SELECT person_id, episode_id, measure_resolver, MIN(measure_date)
\* FROM sq GROUP BY person_id, episode_id, measure_resolver
GroupMin(sq) ==
    LET keys == {GroupKey(r) : r \in DOMAIN sq}
    IN SetToBag(
        {[person_id |-> k.person_id, episode_id |-> k.episode_id,
          measure_resolver |-> k.measure_resolver,
          measure_date |->
              MinOfSet({r.measure_date : r \in {x \in DOMAIN sq : GroupKey(x) = k}})]
         : k \in keys})

\* Subquery.get_subquery_first
get_subquery_first(s, ep_override) ==
    LET sq == get_subquery_any(s, ep_override)
    IN IF ~sq.ok THEN sq ELSE Ok(DatedCols, GroupMin(sq.rows))

\* Subquery.where_clause: sa.and_ over the rules' predicates, as a predicate
\* on one source row; raises as measurable_cls, filter_field, the rules
\* check and the comparators do, in that order
where_clause(s) ==
    IF s.target \notin DOMAIN get_measurable_registry
    THEN [ok |-> FALSE, err |-> "No measurable registered for target",
          holds |-> [x \in DOMAIN db |-> FALSE]]
    ELSE LET cls == get_measurable_registry[s.target]
             field == filter_field(s, cls)
         IN IF field = "None"
            THEN [ok |-> FALSE, err |-> FieldError(s, cls),
                  holds |-> [x \in DOMAIN db |-> FALSE]]
            ELSE IF s.rules = <<>>
            THEN [ok |-> FALSE, err |-> "Subquery has no rules",
                  holds |-> [x \in DOMAIN db |-> FALSE]]
            ELSE IF \E i \in DOMAIN s.rules : RuleErrors(s)[i] # ""
            THEN [ok |-> FALSE,
                  err |-> RuleErrors(s)[
                     MinOfSet({i \in DOMAIN s.rules : RuleErrors(s)[i] # ""})],
                  holds |-> [x \in DOMAIN db |-> FALSE]]
            ELSE [ok |-> TRUE, err |-> "",
                  holds |-> [x \in DOMAIN db |->
                      \A i \in DOMAIN s.rules :
                          RulePredicate(s.rules[i], field, x)]]

\* Subquery.base_selectables
base_selectables(s, ep_override) ==
    filter_table_dated(get_measurable_registry[s.target], ep_override)

\* Subquery.select: SELECT base_selectables WHERE where_clause
select(s, ep_override) ==
    IF ~where_clause(s).ok THEN Raise(where_clause(s).err)
    ELSE Ok(DatedCols,
            SelectWhere(db,
                LAMBDA row : Project(base_selectables(s, ep_override), row),
                LAMBDA row : where_clause(s).holds[row]))

\* ----------------------------------------------------- MeasureSQLCompiler
\* sa.intersect_all(*parts) / sa.except_all(*parts), left associative
RECURSIVE intersect_all(_)
intersect_all(parts) ==
    IF Len(parts) = 1 THEN parts[1]
    ELSE BagMin(intersect_all(SubSeq(parts, 1, Len(parts) - 1)),
                parts[Len(parts)])

RECURSIVE except_all(_)
except_all(parts) ==
    IF Len(parts) = 1 THEN parts[1]
    ELSE except_all(SubSeq(parts, 1, Len(parts) - 1)) (-) parts[Len(parts)]

\* faulty variant of COMBINATION_SQL: rule_or bound to sa.union
COMBINATION_SQL_union(c, parts) ==
    CASE c = "or" -> SetToBag(BagToSet(BagSum(parts)))
      [] c = "and" -> intersect_all(parts)
      [] c = "except" -> except_all(parts)

\* COMBINATION_SQL
COMBINATION_SQL(c, parts) ==
    CASE c = "or" -> union_all(parts)
      [] c = "and" -> intersect_all(parts)
      [] c = "except" -> except_all(parts)

\* faulty variant of _combine: UNION ALL whatever the measure's combination
_combine_union(m, parts) ==
    IF ~AllOk(parts) THEN Raise(FirstError(parts))
    ELSE Ok(parts[1].cols, union_all(RowsOf(parts)))

\* MeasureSQLCompiler._combine over already built parts
_combine(m, parts) ==
    IF ~AllOk(parts) THEN Raise(FirstError(parts))
    ELSE Ok(parts[1].cols, COMBINATION_SQL(combination[m], RowsOf(parts)))

\* MeasureSQLCompiler._normalise: re-project the four canonical columns,
\* fail when one is missing
_normalise(q) ==
    IF ~q.ok THEN q
    ELSE IF DatedCols \ q.cols # {}
    THEN Raise("Normalisation failed: query is missing columns")
    ELSE Ok(DatedCols,
            SelectWhere(q.rows, LAMBDA r : [l \in DatedCols |-> r[l]],
                        LAMBDA r : TRUE))

\* faulty variant of JoinOn: LEFT OUTER JOIN, which keeps the anchor's unmatched rows
JoinOn_outer(lhs, rhs) ==
    LET pairs == {<<l, r>> \in (DOMAIN lhs) \X (DOMAIN rhs) :
                     l.measure_resolver = r.measure_resolver}
        lonely == {l \in DOMAIN lhs :
                      \A r \in DOMAIN rhs : l.measure_resolver # r.measure_resolver}
        joined(p) ==
            [person_id |-> p[1].person_id, episode_id |-> p[1].episode_id,
             measure_resolver |-> p[1].measure_resolver,
             measure_date |-> MaxOf(p[1].measure_date, p[2].measure_date)]
        img == {joined(p) : p \in pairs} \cup lonely
    IN [y \in img |->
           SumOver({p \in pairs : joined(p) = y},
                   [p \in pairs |-> lhs[p[1]] * rhs[p[2]]])
           + (IF y \in lonely THEN lhs[y] ELSE 0)]

\* faulty variant of JoinOn: the joined row carries the right-hand date
JoinOn_last_date(lhs, rhs) ==
    LET pairs == {<<l, r>> \in (DOMAIN lhs) \X (DOMAIN rhs) :
                     l.measure_resolver = r.measure_resolver}
        joined(p) ==
            [person_id |-> p[1].person_id, episode_id |-> p[1].episode_id,
             measure_resolver |-> p[1].measure_resolver,
             measure_date |-> p[2].measure_date]
        img == {joined(p) : p \in pairs}
    IN [y \in img |->
           SumOver({p \in pairs : joined(p) = y},
                   [p \in pairs |-> lhs[p[1]] * rhs[p[2]]])]

\* lhs JOIN rhs ON start.measure_resolver = rhs.measure_resolver, carrying
\* start's person_id, episode_id, measure_resolver and
\* GREATEST(date columns joined so far)
JoinOn(lhs, rhs) ==
    LET pairs == {<<l, r>> \in (DOMAIN lhs) \X (DOMAIN rhs) :
                     l.measure_resolver = r.measure_resolver}
        joined(p) ==
            [person_id |-> p[1].person_id, episode_id |-> p[1].episode_id,
             measure_resolver |-> p[1].measure_resolver,
             measure_date |-> MaxOf(p[1].measure_date, p[2].measure_date)]
        img == {joined(p) : p \in pairs}
    IN [y \in img |->
           SumOver({p \in pairs : joined(p) = y},
                   [p \in pairs |-> lhs[p[1]] * rhs[p[2]]])]

RECURSIVE JoinAll(_)
\* the join loop of sql_first over earliest[0], earliest[1:]
JoinAll(earliest) ==
    IF Len(earliest) = 1 THEN earliest[1]
    ELSE JoinOn(JoinAll(SubSeq(earliest, 1, Len(earliest) - 1)),
                earliest[Len(earliest)])

RECURSIVE sql_any(_, _)
RECURSIVE sql_first(_, _)
RECURSIVE sql_undated(_, _)

\* faulty variant of sql_any: an EXCEPT composite subtracts its later
\* children's rows from the first child's
sql_any_subtracting(m, ep_override) ==
    LET measure == Measures[m]
        ep == ep_override \/ person_ep_override[m]
    IN IF measure.subquery = 0 /\ measure.children = <<>>
       THEN Raise("Measure has no subquery and no children")
       ELSE IF measure.subquery # 0
       THEN get_subquery_any(Subqueries[measure.subquery], ep)
       ELSE IF combination[m] \in {"or", "except"}
       THEN _combine(m, [i \in DOMAIN measure.children |->
                            _normalise(sql_any(measure.children[i], ep))])
       ELSE sql_first(m, ep)

\* MeasureSQLCompiler.sql_any
sql_any(m, ep_override) ==
    LET measure == Measures[m]
        ep == ep_override \/ person_ep_override[m]
    IN IF measure.subquery = 0 /\ measure.children = <<>>
       THEN Raise("Measure has no subquery and no children")
       ELSE IF measure.subquery # 0
       THEN get_subquery_any(Subqueries[measure.subquery], ep)
       ELSE IF combination[m] = "or"
       THEN _combine(m, [i \in DOMAIN measure.children |->
                            _normalise(sql_any(measure.children[i], ep))])
       ELSE sql_first(m, ep)

\* MeasureSQLCompiler.sql_undated
sql_undated(m, ep_override) ==
    LET measure == Measures[m]
        ep == ep_override \/ person_ep_override[m]
    IN IF measure.subquery = 0 /\ measure.children = <<>>
       THEN Raise("Measure has no subquery and no children")
       ELSE IF measure.subquery # 0
       THEN get_subquery_undated(Subqueries[measure.subquery], ep)
       ELSE _combine(m, [i \in DOMAIN measure.children |->
                            sql_undated(measure.children[i], ep)])

\* MeasureSQLCompiler.sql_first
sql_first(m, ep_override) ==
    LET measure == Measures[m]
        ep == ep_override \/ person_ep_override[m]
    IN IF measure.subquery = 0 /\ measure.children = <<>>
       THEN Raise("Measure has no subquery and no children")
       ELSE IF measure.subquery # 0
       THEN get_subquery_first(Subqueries[measure.subquery], ep)
       ELSE LET earliest == [i \in DOMAIN measure.children |->
                                _normalise(sql_any(measure.children[i], ep))]
            IN IF ~AllOk(earliest) THEN Raise(FirstError(earliest))
               ELSE Ok(DatedCols, JoinAll(RowsOf(earliest)))

\* faulty variant of own_override: the measure's own flag is not applied
own_override_dropped(m, ep_override) == ep_override

\* `ep_override = ep_override or self.measure.person_ep_override`
own_override(m, ep_override) == ep_override \/ person_ep_override[m]

RECURSIVE any_leaf_calls(_, _, _)
RECURSIVE first_leaf_calls(_, _, _)
RECURSIVE undated_leaf_calls(_, _, _)
RECURSIVE ChildCalls(_, _, _, _, _)

\* the get_subquery_* calls the list comprehension over the children makes,
\* child by child: shape "any" stands for c.sql_any, "undated" for
\* c.sql_undated; path is the chain of measures compiled so far
ChildCalls(shape, children, n, ep, path) ==
    IF n = 0 THEN <<>>
    ELSE ChildCalls(shape, children, n - 1, ep, path)
         \o (IF shape = "any" THEN any_leaf_calls(children[n], ep, path)
             ELSE undated_leaf_calls(children[n], ep, path))

\* the get_subquery_* calls MeasureSQLCompiler.sql_any makes, in order, each
\* with the ep_override it is given
any_leaf_calls(m, ep_override, path) ==
    LET measure == Measures[m]
        ep == own_override(m, ep_override)
    IN IF measure.subquery = 0 /\ measure.children = <<>> THEN <<>>
       ELSE IF measure.subquery # 0
       THEN << [subquery |-> measure.subquery, shape |-> "get_subquery_any",
                ep_override |-> ep, path |-> Append(path, m)] >>
       ELSE IF combination[m] = "or"
       THEN ChildCalls("any", measure.children, Len(measure.children), ep,
                       Append(path, m))
       ELSE first_leaf_calls(m, ep, path)

\* the get_subquery_* calls MeasureSQLCompiler.sql_undated makes
undated_leaf_calls(m, ep_override, path) ==
    LET measure == Measures[m]
        ep == own_override(m, ep_override)
    IN IF measure.subquery = 0 /\ measure.children = <<>> THEN <<>>
       ELSE IF measure.subquery # 0
       THEN << [subquery |-> measure.subquery,
                shape |-> "get_subquery_undated",
                ep_override |-> ep, path |-> Append(path, m)] >>
       ELSE ChildCalls("undated", measure.children, Len(measure.children),
                       ep, Append(path, m))

\* the get_subquery_* calls MeasureSQLCompiler.sql_first makes
first_leaf_calls(m, ep_override, path) ==
    LET measure == Measures[m]
        ep == own_override(m, ep_override)
    IN IF measure.subquery = 0 /\ measure.children = <<>> THEN <<>>
       ELSE IF measure.subquery # 0
       THEN << [subquery |-> measure.subquery, shape |-> "get_subquery_first",
                ep_override |-> ep, path |-> Append(path, m)] >>
       ELSE ChildCalls("any", measure.children, Len(measure.children), ep,
                       Append(path, m))

\* the composite branch of sql_first for a measure whose ordered children
\* are `children`
first_of_children(children, ep) ==
    LET earliest == [i \in DOMAIN children |->
                        _normalise(sql_any(children[i], ep))]
    IN IF ~AllOk(earliest) THEN Raise(FirstError(earliest))
       ELSE Ok(DatedCols, JoinAll(RowsOf(earliest)))

\* ------------------------------------------------------ Measure.is_executable
Variants == <<"ANY", "FIRST", "UNDATED">>

\* the statement fn() builds for one label of `checks`
VariantSQL(m, label) ==
    CASE label = "ANY" -> sql_any(m, FALSE)
      [] label = "FIRST" -> sql_first(m, FALSE)
      [] label = "UNDATED" -> sql_undated(m, FALSE)

\* one pass of the try block: fn() then self._render_sql(stmt);
\* render_fails is the set of labels whose stmt.compile() raises
VariantError(m, label, render_fails) ==
    IF ~VariantSQL(m, label).ok THEN VariantSQL(m, label).err
    ELSE IF label \in render_fails THEN "CompileError"
    ELSE ""

\* faulty variant of is_executable: the final else branch reports WARN, so a
\* measure none of whose shapes compiles is never FAIL
is_executable_nofail(m, render_fails) ==
    IF Measures[m].measure_id = 0
    THEN [status |-> "pass",
          ok_variants |-> <<"FULL_COHORT">>, failed_variants |-> <<>>]
    ELSE LET failed_labels ==
                 {l \in {"ANY", "FIRST", "UNDATED"} :
                     VariantError(m, l, render_fails) # ""}
             ok == SelectSeq(Variants, LAMBDA l : l \notin failed_labels)
             failed == [l \in failed_labels |->
                           VariantError(m, l, render_fails)]
         IN [status |-> IF ok # <<>> /\ failed_labels = {} THEN "pass"
                        ELSE "warn",
             ok_variants |-> ok,
             failed_variants |-> failed]

\* Measure.is_executable
is_executable(m, render_fails) ==
    IF Measures[m].measure_id = 0
    THEN [status |-> "pass",
          ok_variants |-> <<"FULL_COHORT">>, failed_variants |-> <<>>]
    ELSE LET failed_labels ==
                 {l \in {"ANY", "FIRST", "UNDATED"} :
                     VariantError(m, l, render_fails) # ""}
             ok == SelectSeq(Variants, LAMBDA l : l \notin failed_labels)
             failed == [l \in failed_labels |->
                           VariantError(m, l, render_fails)]
         IN [status |-> IF ok # <<>> /\ failed_labels = {} THEN "pass"
                        ELSE IF ok # <<>> /\ failed_labels # {} THEN "warn"
                        ELSE "fail",
             ok_variants |-> ok,
             failed_variants |-> failed]

\* ------------------------------------------------- compiler calls (actions)
NoCall == [op |-> "none"]
execVars == <<cache, members, ret, store_calls, ncalls, hist, last_ok>>

\* MeasureSQLCompiler(m).sql_any(ep_override=ep)
CallSqlAny(m, ep) ==
    /\ pc = "ready"
    /\ pc' = "done"
    /\ out' = [op |-> "sql_any", m |-> m, ep |-> ep, res |-> sql_any(m, ep)]
    /\ UNCHANGED <<db, combination, person_ep_override, execVars>>

\* MeasureSQLCompiler(m).sql_first(ep_override=ep)
CallSqlFirst(m, ep) ==
    /\ pc = "ready"
    /\ pc' = "done"
    /\ out' = [op |-> "sql_first", m |-> m, ep |-> ep,
               res |-> sql_first(m, ep)]
    /\ UNCHANGED <<db, combination, person_ep_override, execVars>>

\* MeasureSQLCompiler(m).sql_undated(ep_override=ep)
CallSqlUndated(m, ep) ==
    /\ pc = "ready"
    /\ pc' = "done"
    /\ out' = [op |-> "sql_undated", m |-> m, ep |-> ep,
               res |-> sql_undated(m, ep)]
    /\ UNCHANGED <<db, combination, person_ep_override, execVars>>

\* Subquery.get_subquery_any / get_subquery_first / get_subquery_undated /
\* select
CallSubquery(shape, s, ep) ==
    /\ pc = "ready"
    /\ pc' = "done"
    /\ out' = [op |-> shape, s |-> s, ep |-> ep,
               res |-> CASE shape = "get_subquery_any" ->
                               get_subquery_any(Subqueries[s], ep)
                         [] shape = "get_subquery_first" ->
                               get_subquery_first(Subqueries[s], ep)
                         [] shape = "get_subquery_undated" ->
                               get_subquery_undated(Subqueries[s], ep)
                         [] shape = "select" -> select(Subqueries[s], ep)]
    /\ UNCHANGED <<db, combination, person_ep_override, execVars>>

\* get_subquery_any / get_subquery_first / get_subquery_undated of a
\* subquery row sq
CallSubqueryOf(shape, sq, ep) ==
    /\ pc = "ready"
    /\ pc' = "done"
    /\ out' = [op |-> shape, sq |-> sq, ep |-> ep,
               res |-> CASE shape = "get_subquery_any" ->
                               get_subquery_any(sq, ep)
                         [] shape = "get_subquery_first" ->
                               get_subquery_first(sq, ep)
                         [] shape = "get_subquery_undated" ->
                               get_subquery_undated(sq, ep)]
    /\ UNCHANGED <<db, combination, person_ep_override, execVars>>

\* MeasureSQLCompiler(m).sql_first() for an AND composite m whose
\* MeasureRelationship edges list `children` in this order
CallSqlFirstOf(children, ep) ==
    /\ pc = "ready"
    /\ pc' = "done"
    /\ out' = [op |-> "sql_first", children |-> children, ep |-> ep,
               res |-> first_of_children(children, ep)]
    /\ UNCHANGED <<db, combination, person_ep_override, execVars>>

\* MeasurableBase.table_selectables(ep_override)
CallTableSelectables(t, ep) ==
    /\ pc = "ready"
    /\ pc' = "done"
    /\ out' = [op |-> "table_selectables", cls |-> get_measurable_registry[t],
               ep |-> ep,
               res |-> table_selectables(get_measurable_registry[t], ep)]
    /\ UNCHANGED <<db, combination, person_ep_override, execVars>>

\* rule.get_filter_details(field) applied to a row whose field holds v
CallFilter(rule, v) ==
    /\ pc = "ready"
    /\ pc' = "done"
    /\ out' = [op |-> "get_filter_details", rule |-> rule, v |-> v,
               res |-> IF RuleError(rule) # ""
                       THEN [ok |-> FALSE, err |-> RuleError(rule),
                             match |-> FALSE]
                       ELSE [ok |-> TRUE, err |-> "",
                             match |-> get_filter_details(rule, v)]]
    /\ UNCHANGED <<db, combination, person_ep_override, execVars>>

\* Measure.is_executable()
CallIsExecutable(m, render_fails) ==
    /\ pc = "ready"
    /\ pc' = "done"
    /\ out' = [op |-> "is_executable", m |-> m, render_fails |-> render_fails,
               res |-> is_executable(m, render_fails)]
    /\ UNCHANGED <<db, combination, person_ep_override, execVars>>

vars == <<db, combination, person_ep_override, pc, out, cache, members, ret,
          store_calls, ncalls, hist, last_ok>>

Executors == {"ex1"}
\* Measure._members = None
None == [id |-> 0, rows |-> EmptyBag]

\* MeasureExecutor.__init__ for every executor, nothing executed yet
InitExec ==
    /\ cache = [e \in Executors |-> <<>>]
    /\ members = [m \in MeasureIds |-> None]
    /\ ret = NoCall
    /\ store_calls = 0
    /\ ncalls = 0
    /\ hist = [e \in Executors |-> [m \in MeasureIds |-> <<>>]]
    /\ last_ok = [m \in MeasureIds |-> None]

\* measure trees as authored: leaves keep the column default combination
TreeConfigs ==
    {c \in [MeasureIds -> Combinations] :
        \A m \in MeasureIds \ Composites : c[m] = "or"}
\* person_ep_override as authored on any of the measures with content
OverrideConfigs ==
    {f \in [MeasureIds -> BOOLEAN] : \A m \in MeasureIds \ {1, 2, 3, 4} : ~f[m]}
NoOverride == [m \in MeasureIds |-> FALSE]

\* tables with one dated condition row per episode
ExecTables ==
    {SetToBag({[person_id |-> EpisodeOwner(e), episode_id |-> e,
                event_date |-> 1, value_concept |-> c[e]] : e \in Episodes})
        : c \in [Episodes -> Concepts]}

\* the three compiled shapes of every measure tree over every small table
InitCompile ==
    /\ db \in TablesUpTo(MaxRows)
    /\ combination \in TreeConfigs
    /\ person_ep_override = NoOverride
    /\ pc = "ready"
    /\ out = NoCall
    /\ InitExec

NextCompile ==
    \/ \E m \in TreeMeasures, ep \in BOOLEAN : CallSqlAny(m, ep)
    \/ \E m \in TreeMeasures, ep \in BOOLEAN : CallSqlFirst(m, ep)
    \/ \E m \in TreeMeasures, ep \in BOOLEAN : CallSqlUndated(m, ep)

SpecCompile == InitCompile /\ [][NextCompile]_vars

\* the three shapes of every subquery over every small table
InitSubquery ==
    /\ db \in TablesUpTo(MaxRows)
    /\ combination = [m \in MeasureIds |-> "or"]
    /\ person_ep_override = NoOverride
    /\ pc = "ready"
    /\ out = NoCall
    /\ InitExec

NextSubquery ==
    \E shape \in {"get_subquery_any", "get_subquery_first",
                  "get_subquery_undated", "select"},
       s \in DOMAIN Subqueries, ep \in BOOLEAN : CallSubquery(shape, s, ep)

SpecSubquery == InitSubquery /\ [][NextSubquery]_vars

\* the compiled shapes of the measures and subqueries whose authored shape
\* is irregular, over every small table
InitShape ==
    /\ db \in TablesUpTo(MaxRows)
    /\ combination = [m \in MeasureIds |-> "or"]
    /\ person_ep_override = NoOverride
    /\ pc = "ready"
    /\ out = NoCall
    /\ InitExec

NextShape ==
    \/ \E m \in ShapeMeasures, ep \in BOOLEAN : CallSqlAny(m, ep)
    \/ \E m \in ShapeMeasures, ep \in BOOLEAN : CallSqlFirst(m, ep)
    \/ \E m \in ShapeMeasures, ep \in BOOLEAN : CallSqlUndated(m, ep)
    \/ \E shape \in {"get_subquery_any", "get_subquery_first",
                     "get_subquery_undated"},
          s \in DOMAIN Subqueries, ep \in BOOLEAN : CallSubquery(shape, s, ep)

SpecShape == InitShape /\ [][NextShape]_vars

\* condition rows with the concept and the text column populated
FieldRows ==
    {[person_id |-> EpisodeOwner(e), episode_id |-> e, event_date |-> 1,
      value_concept |-> c, value_string |-> t] :
        e \in Episodes, c \in Concepts, t \in StringIds \cup {NULL}}

RECURSIVE FieldTablesUpTo(_)
FieldTablesUpTo(n) ==
    IF n = 0 THEN {EmptyBag}
    ELSE LET smaller == FieldTablesUpTo(n - 1)
         IN smaller \cup {t (+) SetToBag({r}) : t \in smaller, r \in FieldRows}

\* the subqueries a value field is chosen for: concept rules only, rules
\* that need the text column, a rule that needs the numeric column
FieldFixtures ==
    {FieldSubqueries[i] : i \in DOMAIN FieldSubqueries}
    \cup {Subqueries[1], Subqueries[2], Subqueries[4]}

\* the three shapes of those subqueries over every small table
InitField ==
    /\ db \in FieldTablesUpTo(MaxRows)
    /\ combination = [m \in MeasureIds |-> "or"]
    /\ person_ep_override = NoOverride
    /\ pc = "ready"
    /\ out = NoCall
    /\ InitExec

NextField ==
    \E shape \in {"get_subquery_any", "get_subquery_first",
                  "get_subquery_undated"},
       sq \in FieldFixtures : CallSubqueryOf(shape, sq, FALSE)

SpecField == InitField /\ [][NextField]_vars

\* the child lists of an AND composite: two or three of the measures 1, 2
\* and 3 in any order
ChildLists ==
    {q \in [1..2 -> 1..3] \cup [1..3 -> 1..3] :
        \A i, j \in DOMAIN q : i # j => q[i] # q[j]}

\* the trees in which the child measure 3 is an OR, AND or EXCEPT composite
PermuteConfigs == {c \in TreeConfigs : c[4] = "and"}

\* sql_first of an AND composite over every child order and small table
InitPermute ==
    /\ db \in TablesUpTo(MaxRows)
    /\ combination \in PermuteConfigs
    /\ person_ep_override = NoOverride
    /\ pc = "ready"
    /\ out = NoCall
    /\ InitExec

NextPermute == \E q \in ChildLists : CallSqlFirstOf(q, FALSE)

SpecPermute == InitPermute /\ [][NextPermute]_vars

\* measure trees with person_ep_override flags, and the measurables'
\* selectables
InitOverride ==
    /\ db \in ExecTables
    /\ combination \in TreeConfigs
    /\ person_ep_override \in OverrideConfigs
    /\ pc = "ready"
    /\ out = NoCall
    /\ InitExec

NextOverride ==
    \/ \E m \in TreeMeasures, ep \in BOOLEAN : CallSqlAny(m, ep)
    \/ \E m \in TreeMeasures, ep \in BOOLEAN : CallSqlFirst(m, ep)
    \/ \E m \in TreeMeasures, ep \in BOOLEAN : CallSqlUndated(m, ep)
    \/ \E t \in DOMAIN get_measurable_registry, ep \in BOOLEAN :
          CallTableSelectables(t, ep)

SpecOverride == InitOverride /\ [][NextOverride]_vars

\* concept rules of every matcher over the concepts, with every descendant
\* set concept_ancestor may hold for them, their Concept row loaded or not
RuleFixtures ==
    LET loaded ==
            {ExactRule(1, c) : c \in Concepts}
            \cup {HierarchyRule(2, c, d) : c \in Concepts, d \in SUBSET Concepts}
            \cup {HierarchyExclusionRule(3, c, d) :
                     c \in Concepts, d \in SUBSET Concepts}
    IN loaded \cup {[r EXCEPT !.concept = FALSE] : r \in loaded}
       \cup {AbsenceRule(4), PresenceRule(5)}

\* one rule predicate applied to one field value
InitRule ==
    /\ db = EmptyBag
    /\ combination = [m \in MeasureIds |-> "or"]
    /\ person_ep_override = NoOverride
    /\ pc = "ready"
    /\ out = NoCall
    /\ InitExec

NextRule ==
    \E rule \in RuleFixtures, v \in Concepts \cup {NULL} : CallFilter(rule, v)

SpecRule == InitRule /\ [][NextRule]_vars

\* is_executable only builds and renders expressions: no table is read
InitExecutable ==
    /\ db = EmptyBag
    /\ combination \in TreeConfigs
    /\ person_ep_override \in {NoOverride}
    /\ pc = "ready"
    /\ out = NoCall
    /\ InitExec

NextExecutable ==
    \E m \in MeasureIds, render_fails \in SUBSET {"ANY", "FIRST", "UNDATED"} :
        CallIsExecutable(m, render_fails)

SpecExecutable == InitExecutable /\ [][NextExecutable]_vars

\* ---------------------------------------------------------- MeasureExecutor
\* sa.select(sq).where(sq.c.person_id.in_(people)), applied `if people`
RestrictPeople(rows, people) ==
    IF people = {} THEN rows
    ELSE SelectWhere(rows, LAMBDA r : r, LAMBDA r : r.person_id \in people)

\* execute raising e after n data-store calls; store_failed: e came out of
\* db.execute
Raised(c, mem, e, n) ==
    [raised |-> TRUE, err |-> e, obj |-> None, issued |-> n,
     cache |-> c, mem |-> mem, store_failed |-> n > 0]

\* faulty variant of Run: the rows are cached and returned, the measure's
\* _members is left as it was
Run_unassigned(c, mem, m, sql, people, store_ok, id) ==
    IF ~sql.ok THEN Raised(c, mem, sql.err, 0)
    ELSE IF ~store_ok THEN Raised(c, mem, "ExecutionError", 1)
    ELSE LET rows_typed ==
                 [id |-> id, rows |-> RestrictPeople(sql.rows, people)]
         IN [raised |-> FALSE, err |-> "", obj |-> rows_typed, issued |-> 1,
             cache |-> (m :> rows_typed) @@ c, mem |-> mem,
             store_failed |-> FALSE]

\* faulty variant of Run: when db.execute raises, the rows the executor has
\* cached for the measure are returned in place of the failure
Run_fallback(c, mem, m, sql, people, store_ok, id) ==
    IF ~sql.ok THEN Raised(c, mem, sql.err, 0)
    ELSE IF ~store_ok
    THEN IF m \in DOMAIN c
         THEN [raised |-> FALSE, err |-> "", obj |-> c[m], issued |-> 1,
               cache |-> c, mem |-> c[m], store_failed |-> TRUE]
         ELSE Raised(c, mem, "ExecutionError", 1)
    ELSE LET rows_typed ==
                 [id |-> id, rows |-> RestrictPeople(sql.rows, people)]
         IN [raised |-> FALSE, err |-> "", obj |-> rows_typed, issued |-> 1,
             cache |-> (m :> rows_typed) @@ c, mem |-> rows_typed,
             store_failed |-> FALSE]

\* faulty variant of Run: a failing db.execute drops the executor's cache
\* and the measure's members
Run_evicting(c, mem, m, sql, people, store_ok, id) ==
    IF ~sql.ok THEN Raised(c, mem, sql.err, 0)
    ELSE IF ~store_ok THEN Raised(<<>>, None, "ExecutionError", 1)
    ELSE LET rows_typed ==
                 [id |-> id, rows |-> RestrictPeople(sql.rows, people)]
         IN [raised |-> FALSE, err |-> "", obj |-> rows_typed, issued |-> 1,
             cache |-> (m :> rows_typed) @@ c, mem |-> rows_typed,
             store_failed |-> FALSE]

\* faulty variant of Run: the rows are cached for the measure's children too
Run_caching_children(c, mem, m, sql, people, store_ok, id) ==
    IF ~sql.ok THEN Raised(c, mem, sql.err, 0)
    ELSE IF ~store_ok THEN Raised(c, mem, "ExecutionError", 1)
    ELSE LET rows_typed ==
                 [id |-> id, rows |-> RestrictPeople(sql.rows, people)]
             kids == {Measures[m].children[i] : i \in DOMAIN Measures[m].children}
         IN [raised |-> FALSE, err |-> "", obj |-> rows_typed, issued |-> 1,
             cache |-> [k \in {m} \cup kids |-> rows_typed] @@ c,
             mem |-> rows_typed, store_failed |-> FALSE]

\* the tail of execute once sql is compiled: restrict to people, run the
\* statement, cache the rows and assign them to the measure
Run(c, mem, m, sql, people, store_ok, id) ==
    IF ~sql.ok THEN Raised(c, mem, sql.err, 0)
    ELSE IF ~store_ok THEN Raised(c, mem, "ExecutionError", 1)
    ELSE LET rows_typed ==
                 [id |-> id, rows |-> RestrictPeople(sql.rows, people)]
         IN [raised |-> FALSE, err |-> "", obj |-> rows_typed, issued |-> 1,
             cache |-> (m :> rows_typed) @@ c, mem |-> rows_typed,
             store_failed |-> FALSE]

\* an executor that never consults its _cache
execute_uncached(c, mem, m, ep_override, people, force_refresh, store_ok, id) ==
    IF Measures[m].measure_id = 0
    THEN Raised(c, mem, "Measure ID = 0 represents FULL COHORT", 0)
    ELSE Run(c, mem, m, sql_any(m, ep_override), people, store_ok, id)

\* an executor that returns what it has cached even under force_refresh
execute_unforced(c, mem, m, ep_override, people, force_refresh, store_ok, id) ==
    IF Measures[m].measure_id = 0
    THEN Raised(c, mem, "Measure ID = 0 represents FULL COHORT", 0)
    ELSE IF m \in DOMAIN c
    THEN [raised |-> FALSE, err |-> "", obj |-> c[m], issued |-> 0,
          cache |-> c, mem |-> c[m], store_failed |-> FALSE]
    ELSE Run(c, mem, m, sql_any(m, ep_override), people, store_ok, id)

\* MeasureExecutor.execute on an executor whose _cache is c, for a measure
\* whose _members is mem.  store_ok: db.execute(sql).all() returns rather
\* than raises; id: identity of the list it returns.  Yields the outcome
\* with the _cache and _members the call leaves behind.
execute(c, mem, m, ep_override, people, force_refresh, store_ok, id) ==
    IF Measures[m].measure_id = 0
    THEN Raised(c, mem, "Measure ID = 0 represents FULL COHORT", 0)
    ELSE IF ~force_refresh /\ m \in DOMAIN c
    THEN [raised |-> FALSE, err |-> "", obj |-> c[m], issued |-> 0,
          cache |-> c, mem |-> c[m], store_failed |-> FALSE]
    ELSE Run(c, mem, m, sql_any(m, ep_override), people, store_ok, id)

\* executor e runs execute(measure m, ...)
Execute(e, m, ep, people, force, store_ok) ==
    /\ pc = "ready"
    /\ ncalls < MaxCalls
    /\ \E r \in {execute(cache[e], members[m], m, ep, people, force, store_ok,
                         store_calls + 1)} :
          /\ cache' = [cache EXCEPT ![e] = r.cache]
          /\ members' = [members EXCEPT ![m] = r.mem]
          /\ ret' = [op |-> "execute", e |-> e, m |-> m, force |-> force,
                     people |-> people, raised |-> r.raised, err |-> r.err,
                     obj |-> r.obj, issued |-> r.issued,
                     store_failed |-> r.store_failed]
          /\ store_calls' = store_calls + r.issued
          /\ hist' = IF Len(hist[e][m]) < 2
                     THEN [hist EXCEPT ![e][m] =
                              Append(@, [force |-> force, raised |-> r.raised,
                                         issued |-> r.issued, obj |-> r.obj])]
                     ELSE hist
          /\ last_ok' = IF r.raised THEN last_ok
                        ELSE [last_ok EXCEPT ![m] = r.obj]
    /\ ncalls' = ncalls + 1
    /\ UNCHANGED <<db, combination, person_ep_override, pc, out>>

\* ----------------------------------------------------------------- Indicator
\* Indicator rows: numerator and denominator measure
Indicators ==
    [i \in 1..2 |->
        IF i = 1 THEN [numerator_measure |-> 1, denominator_measure |-> 3]
        ELSE [numerator_measure |-> 2, denominator_measure |-> 1]]

\* Indicator.execute: a new MeasureExecutor runs the denominator, then the
\* numerator
IndicatorExecute(i, people, den_ok, num_ok) ==
    /\ pc = "ready"
    /\ ncalls + 2 <= MaxCalls
    /\ \E den \in {Indicators[i].denominator_measure},
          num \in {Indicators[i].numerator_measure} :
       \E r1 \in {execute(<<>>, members[den], den, FALSE, people, FALSE, den_ok,
                          store_calls + 1)} :
       \E mem1 \in {[members EXCEPT ![den] = r1.mem]} :
       \E r2 \in {execute(r1.cache, mem1[num], num, FALSE, people, FALSE,
                          num_ok, store_calls + r1.issued + 1)} :
          IF r1.raised
          THEN /\ members' = mem1
               /\ store_calls' = store_calls + r1.issued
               /\ ret' = [op |-> "indicator_execute", i |-> i,
                          raised |-> TRUE, err |-> r1.err]
               /\ last_ok' = last_ok
          ELSE /\ members' = [mem1 EXCEPT ![num] = r2.mem]
               /\ store_calls' = store_calls + r1.issued + r2.issued
               /\ ret' = [op |-> "indicator_execute", i |-> i,
                          raised |-> r2.raised, err |-> r2.err]
               /\ last_ok' = IF r2.raised
                             THEN [last_ok EXCEPT ![den] = r1.obj]
                             ELSE [last_ok EXCEPT ![den] = r1.obj,
                                                  ![num] = r2.obj]
    /\ ncalls' = ncalls + 2
    /\ UNCHANGED <<db, combination, person_ep_override, pc, out, cache, hist>>

\* ------------------------------------------------------------------- Report
\* Report rows: the measures its indicators name as numerator and
\* denominator and the measures of its cohorts.  Report 2 has an indicator
\* over the full cohort (measure 0).
Reports ==
    [r \in 1..2 |->
        IF r = 1 THEN [numerator_measures |-> <<1>>,
                       denominator_measures |-> <<3>>,
                       cohort_measures |-> {2}]
        ELSE [numerator_measures |-> <<1, 2>>,
              denominator_measures |-> <<0, 1>>,
              cohort_measures |-> {3}]]

RECURSIVE SortedById(_)
\* sorted(S, key=lambda x: x.id)
SortedById(S) ==
    IF S = {} THEN <<>>
    ELSE <<MinOfSet(S)>> \o SortedById(S \ {MinOfSet(S)})

\* Report.report_measures
report_measures(r) ==
    SortedById({Reports[r].numerator_measures[i] :
                   i \in DOMAIN Reports[r].numerator_measures}
               \cup {Reports[r].denominator_measures[i] :
                        i \in DOMAIN Reports[r].denominator_measures}
               \cup Reports[r].cohort_measures)

RECURSIVE ReportLoop(_, _, _, _)
\* `for m in self.report_measures: executor.execute(m, people=people)` over
\* the measures ms still to run; st is the executor's cache, every
\* measure's members, the store calls issued and the measures done so far.
\* The fail_at-th store call of the loop raises (0: none does).
ReportLoop(ms, st, people, fail_at) ==
    IF ms = <<>> \/ st.raised THEN st
    ELSE LET m == Head(ms)
             r == execute(st.cache, st.mem[m], m, FALSE, people, FALSE,
                          st.issued + 1 # fail_at,
                          store_calls + st.issued + 1)
         IN ReportLoop(Tail(ms),
                [cache |-> r.cache,
                 mem |-> [st.mem EXCEPT ![m] = r.mem],
                 issued |-> st.issued + r.issued,
                 raised |-> r.raised,
                 err |-> r.err,
                 store_failed |-> r.store_failed,
                 passed |-> Append(st.passed, m),
                 done |-> IF r.raised THEN st.done ELSE st.done \cup {m}],
                people, fail_at)

\* Report.execute: a new MeasureExecutor runs every report measure in id
\* order
ReportExecute(r, people, fail_at) ==
    /\ pc = "ready"
    /\ ncalls < MaxCalls
    /\ \E st \in {ReportLoop(report_measures(r),
                              [cache |-> <<>>, mem |-> members, issued |-> 0,
                               raised |-> FALSE, err |-> "",
                               store_failed |-> FALSE, passed |-> <<>>,
                               done |-> {}],
                              people, fail_at)} :
          /\ members' = st.mem
          /\ store_calls' = store_calls + st.issued
          /\ ret' = [op |-> "report_execute", r |-> r, people |-> people,
                     raised |-> st.raised, err |-> st.err,
                     store_failed |-> st.store_failed,
                     passed |-> st.passed, done |-> st.done]
          /\ last_ok' = [m \in MeasureIds |->
                            IF m \in st.done THEN st.mem[m] ELSE last_ok[m]]
    /\ ncalls' = ncalls + 1
    /\ UNCHANGED <<db, combination, person_ep_override, pc, out, cache, hist>>

\* Measure.members
measure_members(m) ==
    IF members[m] = None
    THEN [raised |-> TRUE, err |-> "has not been executed yet", obj |-> None]
    ELSE [raised |-> FALSE, err |-> "", obj |-> members[m]]

\* the numerator measure's members, not narrowed to the denominator
numerator_members_all(i) ==
    LET num == measure_members(Indicators[i].numerator_measure)
    IN [raised |-> num.raised, err |-> num.err, rows |-> BagToSet(num.obj.rows)]

\* Indicator.numerator_members: list(set(num) & set(den)), as a set of rows
numerator_members(i) ==
    LET num == measure_members(Indicators[i].numerator_measure)
        den == measure_members(Indicators[i].denominator_measure)
    IN IF num.raised THEN [raised |-> TRUE, err |-> num.err, rows |-> {}]
       ELSE IF den.raised THEN [raised |-> TRUE, err |-> den.err, rows |-> {}]
       ELSE [raised |-> FALSE, err |-> "",
             rows |-> BagToSet(num.obj.rows) \cap BagToSet(den.obj.rows)]

\* Indicator.denominator_members
denominator_members(i) == measure_members(Indicators[i].denominator_measure)

\* people = None and people = [1]
PeopleArgs == {{}, {1}}
\* the tree the executor runs on: 3 = OR(1, 2), 4 = AND(3, 2), no
\* person_ep_override
ExecConfigs ==
    {c \in TreeConfigs : c[3] = "or" /\ c[4] = "and"}

Init ==
    /\ db \in ExecTables
    /\ combination \in ExecConfigs
    /\ person_ep_override = NoOverride
    /\ pc = "ready"
    /\ out = NoCall
    /\ InitExec

Next ==
    \/ \E e \in Executors, m \in TreeMeasures, ep \in BOOLEAN,
          people \in PeopleArgs, force \in BOOLEAN, store_ok \in BOOLEAN :
          Execute(e, m, ep, people, force, store_ok)
    \/ \E i \in DOMAIN Indicators, people \in PeopleArgs,
          den_ok \in BOOLEAN, num_ok \in BOOLEAN :
          IndicatorExecute(i, people, den_ok, num_ok)

Spec == Init /\ [][Next]_vars

\* reading Indicator.numerator_members and Indicator.denominator_members
ReadIndicator(i) ==
    /\ pc = "ready"
    /\ pc' = "done"
    /\ out' = [op |-> "indicator_members", i |-> i,
               num |-> numerator_members(i), den |-> denominator_members(i)]
    /\ UNCHANGED <<db, combination, person_ep_override, execVars>>

\* the table in which every episode has a condition of concept 1
MembersTables == {t \in ExecTables : \A x \in DOMAIN t : x.value_concept = 1}

\* executions interleaved with the operations that only read a measure:
\* compilation, is_executable and the indicator member properties
InitMembers ==
    /\ db \in MembersTables
    /\ combination \in ExecConfigs
    /\ person_ep_override = NoOverride
    /\ pc = "ready"
    /\ out = NoCall
    /\ InitExec

NextMembers ==
    \/ \E e \in Executors, m \in {1, 3}, people \in PeopleArgs,
          force \in BOOLEAN, store_ok \in BOOLEAN :
          Execute(e, m, FALSE, people, force, store_ok)
    \/ \E people \in PeopleArgs, den_ok \in BOOLEAN, num_ok \in BOOLEAN :
          IndicatorExecute(1, people, den_ok, num_ok)
    \/ \E m \in {1, 3} : CallSqlAny(m, FALSE)
    \/ \E m \in {1, 3} : CallIsExecutable(m, {})
    \/ \E i \in DOMAIN Indicators : ReadIndicator(i)

SpecMembers == InitMembers /\ [][NextMembers]_vars

\* Report.execute over the executor's tables; any one store call of a run
\* may raise
InitReport ==
    /\ db \in ExecTables
    /\ combination \in ExecConfigs
    /\ person_ep_override = NoOverride
    /\ pc = "ready"
    /\ out = NoCall
    /\ InitExec

NextReport ==
    \E r \in DOMAIN Reports, people \in PeopleArgs :
        \E fail_at \in 0..Len(report_measures(r)) :
            ReportExecute(r, people, fail_at)

SpecReport == InitReport /\ [][NextReport]_vars

\* ================================================================ claims
\* the compiler call recorded in `out` returned a query
Returned(op) == pc = "done" /\ out.op = op /\ out.res.ok

\* the ep_override the call recorded in `out` hands to its children
OutEp == out.ep \/ person_ep_override[out.m]

\* the rows child i of the compiled measure contributes (its sql_any)
ChildRows(i) == sql_any(Measures[out.m].children[i], OutEp).rows
ChildIdx == DOMAIN Measures[out.m].children

ResolverKeys(B) == {r.measure_resolver : r \in DOMAIN B}

\* earliest measure_date among the rows of B with resolver key k
EarliestFor(B, k) ==
    MinOfSet({r.measure_date : r \in {x \in DOMAIN B : x.measure_resolver = k}})

\* C1: every row of sql_first of a composite AND measure carries, as
\* measure_date, the maximum over the children of the child's earliest
\* qualifying date for the row's measure_resolver key.
C1_AndFirstDateIsMaxOfEarliest ==
    (Returned("sql_first") /\ out.m \in Composites /\ combination[out.m] = "and")
    => \A r \in DOMAIN out.res.rows :
          r.measure_date =
              MaxOfSet({EarliestFor(ChildRows(i), r.measure_resolver) :
                           i \in ChildIdx})

\* C2: a measure_resolver key is in sql_first of a composite AND measure
\* exactly when it is in the compiled result of every child.
C2_AndFirstKeysAreIntersection ==
    (Returned("sql_first") /\ out.m \in Composites /\ combination[out.m] = "and")
    => ResolverKeys(out.res.rows) =
          {k \in ResolverKeys(ChildRows(1)) :
              \A i \in ChildIdx : k \in ResolverKeys(ChildRows(i))}

\* C2 witness: an AND composite whose sql_first keeps one key and drops a
\* key that only some child has
C2_Witness ==
    /\ Returned("sql_first") /\ out.m \in Composites
    /\ combination[out.m] = "and"
    /\ out.res.rows # EmptyBag
    /\ \E i \in ChildIdx :
          ResolverKeys(ChildRows(i)) \ ResolverKeys(out.res.rows) # {}

\* C3: sql_any of a composite OR measure is the multiset union of its
\* children's sql_any results: every row keeps the sum of its
\* multiplicities and the row count is the sum of the children's counts.
C3_OrAnyIsMultisetUnion ==
    (Returned("sql_any") /\ out.m \in Composites /\ combination[out.m] = "or")
    => /\ \A r \in DOMAIN out.res.rows \cup
                   UNION {DOMAIN ChildRows(i) : i \in ChildIdx} :
             Copies(out.res.rows, r) =
                 SumOver(ChildIdx, [i \in ChildIdx |-> Copies(ChildRows(i), r)])
       /\ Size(out.res.rows) =
             SumOver(ChildIdx, [i \in ChildIdx |-> Size(ChildRows(i))])

\* C3 witness: an OR composite returning a row that two children both
\* contribute, kept with both multiplicities
C3_Witness ==
    /\ Returned("sql_any") /\ out.m \in Composites
    /\ combination[out.m] = "or"
    /\ \E r \in DOMAIN out.res.rows :
          /\ \A i \in ChildIdx : Copies(ChildRows(i), r) >= 1
          /\ out.res.rows[r] >= 2

\* C4: get_subquery_first has exactly one row per (person_id, episode_id,
\* measure_resolver) key of get_subquery_any, no other row, and the row's
\* measure_date is the least measure_date of the key's rows.
C4_FirstIsMinPerKey ==
    Returned("get_subquery_first")
    => LET any == get_subquery_any(Subqueries[out.s], out.ep).rows
           first == out.res.rows
       IN /\ {GroupKey(r) : r \in DOMAIN first} = {GroupKey(r) : r \in DOMAIN any}
          /\ \A r \in DOMAIN first :
                /\ first[r] = 1
                /\ \A q \in DOMAIN first : GroupKey(q) = GroupKey(r) => q = r
                /\ \E a \in DOMAIN any :
                      GroupKey(a) = GroupKey(r) /\ a.measure_date = r.measure_date
                /\ \A a \in DOMAIN any :
                      GroupKey(a) = GroupKey(r) => r.measure_date <= a.measure_date

\* C4 witness: a key with two qualifying dates, reduced to one row
C4_Witness ==
    /\ Returned("get_subquery_first")
    /\ \E a, b \in DOMAIN get_subquery_any(Subqueries[out.s], out.ep).rows :
          GroupKey(a) = GroupKey(b) /\ a.measure_date < b.measure_date

\* source rows (with multiplicity) rule i of subquery s matches on the
\* concept column, projected to the canonical columns
MatchCount(s, i, y) ==
    SumOver({x \in DOMAIN db :
                /\ get_filter_details(Subqueries[s].rules[i], x.value_concept)
                /\ y = [person_id |-> x.person_id, episode_id |-> x.episode_id,
                        measure_resolver |-> x.episode_id,
                        measure_date |-> x.event_date]},
            db)

\* C5: get_subquery_any is the multiset union of the rows each rule
\* matches on its own: a source row matched by k rules is returned k times
\* and the row count is the sum of the per-rule match counts.
C5_AnyIsUnionAllOverRules ==
    Returned("get_subquery_any")
    => LET rules == Subqueries[out.s].rules
           matched(i) == {x \in DOMAIN db :
                             get_filter_details(rules[i], x.value_concept)}
       IN /\ \A y \in DOMAIN out.res.rows :
                out.res.rows[y] =
                    SumOver(DOMAIN rules,
                            [i \in DOMAIN rules |-> MatchCount(out.s, i, y)])
          /\ Size(out.res.rows) =
                SumOver(DOMAIN rules,
                        [i \in DOMAIN rules |-> SumOver(matched(i), db)])

\* C5 witness: one source row matched by two rules and returned twice
C5_Witness ==
    /\ Returned("get_subquery_any")
    /\ \E x \in DOMAIN db :
          /\ db[x] = 1
          /\ Cardinality({i \in DOMAIN Subqueries[out.s].rules :
                 get_filter_details(Subqueries[out.s].rules[i],
                                    x.value_concept)}) = 2
          /\ Size(db) = 1
          /\ Size(out.res.rows) = 2

\* the first two execute calls made on executor e for measure m
FirstTwo(e, m) == hist[e][m]
PlainAndReturned(h) == ~h.force /\ ~h.raised

\* C6: when the first two execute(m) calls on one executor are both made
\* without force_refresh and both return, together they issue exactly one
\* data-store call and the second returns the very row-set object the first
\* returned.
C6_SecondExecuteIsCached ==
    \A e \in Executors, m \in MeasureIds :
        (/\ Len(FirstTwo(e, m)) = 2
         /\ PlainAndReturned(FirstTwo(e, m)[1])
         /\ PlainAndReturned(FirstTwo(e, m)[2]))
        => /\ FirstTwo(e, m)[1].issued + FirstTwo(e, m)[2].issued = 1
           /\ FirstTwo(e, m)[2].obj = FirstTwo(e, m)[1].obj

\* C6 witness: two plain execute calls of one measure have returned a
\* non-empty row set, the second being the latest call
C6_Witness ==
    \E e \in Executors, m \in MeasureIds :
        /\ Len(FirstTwo(e, m)) = 2
        /\ PlainAndReturned(FirstTwo(e, m)[1])
        /\ PlainAndReturned(FirstTwo(e, m)[2])
        /\ FirstTwo(e, m)[1].obj.rows # EmptyBag
        /\ ret.op = "execute" /\ ret.m = m /\ ret.issued = 0

\* both measures of indicator i have been executed
BothExecuted(i) ==
    /\ members[Indicators[i].numerator_measure] # None
    /\ members[Indicators[i].denominator_measure] # None

\* C7: for every indicator whose two measures have been executed,
\* numerator_members is exactly the set of full rows that are members of
\* both the denominator and the numerator measure, and denominator_members
\* is the denominator measure's members.
C7_IndicatorMembers ==
    \A i \in DOMAIN Indicators :
        BothExecuted(i)
        => LET num == members[Indicators[i].numerator_measure].rows
               den == members[Indicators[i].denominator_measure].rows
           IN /\ ~numerator_members(i).raised
              /\ \A r \in DOMAIN num \cup DOMAIN den :
                    r \in numerator_members(i).rows
                    <=> (Copies(num, r) >= 1 /\ Copies(den, r) >= 1)
              /\ numerator_members(i).rows \subseteq DOMAIN num \cup DOMAIN den
              /\ ~denominator_members(i).raised
              /\ denominator_members(i).obj =
                    members[Indicators[i].denominator_measure]

\* C7 witness: an executed indicator whose numerator_members is non-empty
\* and leaves out a row of the numerator measure that the denominator
\* measure does not have
C7_Witness ==
    \E i \in DOMAIN Indicators :
        /\ BothExecuted(i)
        /\ numerator_members(i).rows # {}
        /\ numerator_members(i).rows #
              DOMAIN members[Indicators[i].numerator_measure].rows

\* C11: a hierarchy rule's predicate selects a field value exactly when the
\* value is the rule's own concept_id or one of the descendants resolved for
\* it, whatever the descendant set, the empty one included.
C11_HierarchyIsReflexive ==
    (/\ pc = "done" /\ out.op = "get_filter_details"
     /\ out.rule.matcher = "hierarchy" /\ out.res.ok)
    => (out.res.match <=> out.v \in {out.rule.concept_id} \cup out.rule.children)

\* the source rows satisfying at least one rule of subquery s
SomeRuleMatches(s) ==
    {x \in DOMAIN db :
        \E i \in DOMAIN s.rules :
            get_filter_details(s.rules[i],
                x[filter_field(s, get_measurable_registry[s.target])])}

\* C12: in every compilation of a subquery (get_subquery_any,
\* get_subquery_undated, get_subquery_first and select, which applies
\* where_clause) the keys returned are exactly the keys of the source rows
\* that satisfy at least one of its rules.
C12_RulesAreDisjunctive ==
    (/\ pc = "done"
     /\ out.op \in {"get_subquery_any", "get_subquery_first",
                    "get_subquery_undated", "select"}
     /\ out.res.ok)
    => {GroupKey(y) : y \in DOMAIN out.res.rows} =
          {GroupKey(Project(filter_table(
                        get_measurable_registry[Subqueries[out.s].target],
                        out.ep), x)) :
              x \in SomeRuleMatches(Subqueries[out.s])}

\* the rows child i of the compiled measure contributes to sql_undated
ChildUndated(i) == sql_undated(Measures[out.m].children[i], OutEp).rows
UndatedRows == UNION {DOMAIN ChildUndated(i) : i \in ChildIdx}
SumOfChildren(r) ==
    SumOver(ChildIdx, [i \in ChildIdx |-> Copies(ChildUndated(i), r)])

\* C13 as stated: sql_undated of a composite measure of any combination is
\* the UNION ALL of its children's sql_undated results.
C13_UndatedIsUnionAll ==
    (Returned("sql_undated") /\ out.m \in Composites)
    => \A r \in DOMAIN out.res.rows \cup UndatedRows :
          Copies(out.res.rows, r) = SumOfChildren(r)

\* C13 amended: sql_undated of a composite measure combines its children's
\* sql_undated results with the measure's own combination: UNION ALL for
\* OR (multiplicities add up), INTERSECT ALL for AND (the least multiplicity
\* among the children), EXCEPT ALL for EXCEPT (the first child's
\* multiplicity less those of the other children, not below zero).
C13_UndatedFollowsCombination ==
    (Returned("sql_undated") /\ out.m \in Composites)
    => \A r \in DOMAIN out.res.rows \cup UndatedRows :
          Copies(out.res.rows, r) =
             CASE combination[out.m] = "or" -> SumOfChildren(r)
               [] combination[out.m] = "and" ->
                     MinOfSet({Copies(ChildUndated(i), r) : i \in ChildIdx})
               [] combination[out.m] = "except" ->
                     MaxOf(0, 2 * Copies(ChildUndated(1), r) - SumOfChildren(r))

\* C13 witness: an AND composite whose sql_undated returns a row fewer
\* times than its children together do
C13_Witness ==
    /\ Returned("sql_undated") /\ out.m \in Composites
    /\ combination[out.m] = "and"
    /\ \E r \in DOMAIN out.res.rows : Copies(out.res.rows, r) < SumOfChildren(r)

\* the columns of the query the compiler call returned, and of its rows
HasColumns(cols) ==
    /\ out.res.cols = cols
    /\ \A r \in DOMAIN out.res.rows : DOMAIN r = cols

\* C14 as stated: every query sql_any, sql_first or sql_undated returns, for
\* a leaf or a composite measure, has the four canonical columns person_id,
\* episode_id, measure_resolver and measure_date.
C14_FourColumnsAlways ==
    (pc = "done" /\ out.op \in {"sql_any", "sql_first", "sql_undated"}
     /\ out.res.ok)
    => HasColumns(DatedCols)

\* C14 amended: every query sql_any or sql_first returns has exactly the four
\* canonical columns; every query sql_undated returns, for a leaf or a
\* composite measure, has exactly person_id, episode_id and measure_resolver
\* and no measure_date column.
C14_ColumnsByShape ==
    (pc = "done" /\ out.op \in {"sql_any", "sql_first", "sql_undated"}
     /\ out.res.ok)
    => IF out.op = "sql_undated"
       THEN HasColumns({"person_id", "episode_id", "measure_resolver"})
       ELSE HasColumns(DatedCols)

\* C14 witness: sql_undated of a composite measure returning rows
C14_Witness ==
    /\ Returned("sql_undated") /\ out.m \in Composites
    /\ out.res.rows # EmptyBag

\* what reading Measure.members of m gives when its latest returning
\* execute returned obj (None: no execute of m has returned yet)
MembersAfter(obj) ==
    IF obj = None
    THEN [raised |-> TRUE, err |-> "has not been executed yet", obj |-> None]
    ELSE [raised |-> FALSE, err |-> "", obj |-> obj]

ForcedAndReturned == ret.op = "execute" /\ ret.force /\ ~ret.raised

\* this step is an execute(m) without force_refresh on an executor that has
\* m cached
PlainStepOnCached ==
    /\ ncalls' = ncalls + 1
    /\ ret'.op = "execute" /\ ~ret'.force
    /\ ret'.m \in DOMAIN cache[ret'.e]

\* C16: an execute with force_refresh that returns has issued one data-store
\* call, and the executor's cache entry and the measure's members are the
\* new row set it returned; a force_refresh call on a measure the executor
\* has cached issues a data-store call and, when it returns, returns a new
\* row-set object; and every later execute without force_refresh returns
\* what the cache holds without a data-store call.
C16_ForceRefreshReplaces ==
    /\ [](ForcedAndReturned
            => /\ ret.issued = 1
               /\ ret.obj.id = store_calls
               /\ cache[ret.e][ret.m] = ret.obj
               /\ members[ret.m] = ret.obj)
    /\ [](\A e \in Executors, m \in MeasureIds :
            (Len(FirstTwo(e, m)) = 2 /\ ~FirstTwo(e, m)[1].raised
             /\ FirstTwo(e, m)[2].force)
            => /\ FirstTwo(e, m)[2].issued = 1
               /\ FirstTwo(e, m)[2].raised
                  \/ FirstTwo(e, m)[2].obj.id # FirstTwo(e, m)[1].obj.id)
    /\ [][PlainStepOnCached
            => /\ ~ret'.raised
               /\ ret'.issued = 0
               /\ ret'.obj = cache[ret'.e][ret'.m]
               /\ members'[ret'.m] = ret'.obj]_vars

\* C16 witness: a force_refresh call on a cached measure has replaced the
\* cached rows by different rows
C16_Witness ==
    /\ ForcedAndReturned
    /\ Len(FirstTwo(ret.e, ret.m)) = 2
    /\ ~FirstTwo(ret.e, ret.m)[1].raised
    /\ FirstTwo(ret.e, ret.m)[2].obj = ret.obj
    /\ FirstTwo(ret.e, ret.m)[1].obj.rows # ret.obj.rows
    /\ cache[ret.e][ret.m] = ret.obj

\* the latest call was one of the compiler's three entry points
CompilerCall == pc = "done" /\ out.op \in {"sql_any", "sql_first", "sql_undated"}
\* the latest call was one of the subquery's three compiled shapes
SubqueryCall ==
    pc = "done" /\ out.op \in {"get_subquery_any", "get_subquery_first",
                               "get_subquery_undated"}
\* the subquery the latest call compiled directly: the one named in a
\* get_subquery_* call, or the one bound to the measure of a sql_* call
CompiledSubquery ==
    IF SubqueryCall THEN {Subqueries[out.s]}
    ELSE IF CompilerCall /\ Measures[out.m].subquery # 0
                         /\ Measures[out.m].children = <<>>
    THEN {Subqueries[Measures[out.m].subquery]}
    ELSE {}

\* C17: a compiler entry point returns a query only for a measure that has
\* exactly one of a bound subquery and at least one child.
C17_CompilesOnlyOneOfSubqueryOrChildren ==
    (CompilerCall /\ out.res.ok)
    => (Measures[out.m].subquery # 0) # (Measures[out.m].children # <<>>)

\* C18: compiling a subquery without rules raises, from each get_subquery_*
\* shape and from each sql_* shape of the leaf measure that wraps it, and
\* returns no query.
C18_NoRulesRaises ==
    \A s \in CompiledSubquery :
        s.rules = <<>>
        => /\ ~out.res.ok
           /\ out.res.err = "Subquery has no rules"
           /\ out.res.rows = EmptyBag /\ out.res.cols = {}

\* C18 witness: a leaf measure wrapping the subquery without rules was
\* compiled over a table with rows and raised
C18_Witness ==
    /\ CompilerCall /\ out.m = 7
    /\ \E s \in CompiledSubquery : s.rules = <<>>
    /\ ~out.res.ok
    /\ db # EmptyBag

\* the value column the rules of sq call for: numeric if any rule is scalar,
\* else string if any rule is substring, else concept
ChosenColumn(sq) ==
    LET cls == get_measurable_registry[sq.target]
    IN IF \E i \in DOMAIN sq.rules : sq.rules[i].matcher = "scalar"
       THEN cls.value_numeric_col
       ELSE IF \E i \in DOMAIN sq.rules : sq.rules[i].matcher = "substring"
       THEN cls.value_string_col
       ELSE cls.value_concept_col

\* the binding of s does not expose the value column its rules require
FieldMissing(s) ==
    /\ s.rules # <<>>
    /\ s.target \in DOMAIN get_measurable_registry
    /\ ChosenColumn(s) = "None"
\* s has a scalar rule and its binding has no numeric value column
ScalarWithoutNumeric(s) ==
    /\ \E i \in DOMAIN s.rules : requires_numeric(s.rules[i])
    /\ s.target \in DOMAIN get_measurable_registry
    /\ get_measurable_registry[s.target].value_numeric_col = "None"

\* C19: when the binding does not expose the value column chosen for a
\* subquery, each of its compiled shapes (and each sql_* shape of the leaf
\* measure wrapping it) raises an error that names the missing kind; a
\* subquery with a scalar rule on a binding without numeric column never
\* compiles.
C19_MissingValueColumnRaises ==
    \A s \in CompiledSubquery :
        /\ FieldMissing(s)
            => /\ ~out.res.ok
               /\ out.res.err = FieldError(s, get_measurable_registry[s.target])
               /\ filter_kind(s) = "numeric"
                    => out.res.err = "does not expose required numeric value column"
               /\ filter_kind(s) = "string"
                    => out.res.err = "does not expose required string value column"
        /\ ScalarWithoutNumeric(s) => ~out.res.ok

\* C19 witness: a subquery with a scalar rule on the condition binding, which
\* has no numeric column, was compiled over a table with rows and raised
\* naming the numeric column
C19_Witness ==
    /\ \E s \in CompiledSubquery : FieldMissing(s) /\ ScalarWithoutNumeric(s)
    /\ ~out.res.ok
    /\ out.res.err = "does not expose required numeric value column"
    /\ db # EmptyBag

\* the latest call was an executor.execute whose db.execute raised
StoreFailed == ret.op = "execute" /\ ret.store_failed

\* C20: an execute whose data-store call fails raises that failure and
\* returns no rows, having made exactly one data-store call; the executor's
\* cache and the measure's members stay as they were.
C20_StoreFailurePropagates ==
    /\ [](StoreFailed
            => /\ ret.raised
               /\ ret.err = "ExecutionError"
               /\ ret.obj = None
               /\ ret.issued = 1)
    /\ [][(ret'.op = "execute" /\ ncalls' = ncalls + 1 /\ ret'.store_failed)
            => /\ store_calls' = store_calls + 1
               /\ cache' = cache
               /\ members' = members]_vars

\* C20 witness: the data-store call of a force_refresh execute failed on a
\* measure the executor has rows cached for, and the call raised
C20_Witness ==
    /\ StoreFailed
    /\ ret.raised
    /\ ret.force
    /\ ret.m \in DOMAIN cache[ret.e]
    /\ cache[ret.e][ret.m].rows # EmptyBag

\* the source rows rule i of sq selects when evaluated on column col, with
\* their multiplicity, keyed as the undated shape keys them
SelectedOn(sq, i, col, key) ==
    SumOver({x \in DOMAIN db :
                /\ [person_id |-> x.person_id, episode_id |-> x.episode_id,
                    measure_resolver |-> x.episode_id] = key
                /\ get_filter_details(sq.rules[i], x[col])}, db)

RECURSIVE SumSelected(_, _, _, _)
SumSelected(sq, n, col, key) ==
    IF n = 0 THEN 0
    ELSE SelectedOn(sq, n, col, key) + SumSelected(sq, n - 1, col, key)

\* the latest call compiled a shape of a subquery row
FieldCall ==
    pc = "done" /\ out.op \in {"get_subquery_any", "get_subquery_first",
                               "get_subquery_undated"}

LeafCalls ==
    CASE out.op = "sql_any" -> any_leaf_calls(out.m, out.ep, <<>>)
      [] out.op = "sql_first" -> first_leaf_calls(out.m, out.ep, <<>>)
      [] out.op = "sql_undated" -> undated_leaf_calls(out.m, out.ep, <<>>)

\* C22: every leaf subquery a sql_any, sql_first or sql_undated call compiles
\* is given the caller's ep_override OR-ed with the person_ep_override flags
\* of the measures on the path from the compiled root to that leaf, and of
\* no other measure.
C22_OverrideFollowsPath ==
    CompilerCall =>
        \A k \in DOMAIN LeafCalls :
            LeafCalls[k].ep_override
            = (out.ep \/ \E j \in DOMAIN LeafCalls[k].path :
                            person_ep_override[LeafCalls[k].path[j]])

\* C22 witness: one compilation reached the same leaf measure twice, below a
\* flagged sibling subtree with the override and outside it without
C22_Witness ==
    /\ CompilerCall /\ out.res.ok /\ ~out.ep
    /\ \E j, k \in DOMAIN LeafCalls :
          /\ LeafCalls[j].subquery = LeafCalls[k].subquery
          /\ LeafCalls[j].ep_override /\ ~LeafCalls[k].ep_override
          /\ Len(LeafCalls[j].path) = 3 /\ Len(LeafCalls[k].path) = 2
          /\ person_ep_override[LeafCalls[j].path[2]]

\* the latest call was sql_any on a composite whose combination is AND or
\* EXCEPT
AnyOfAndOrExcept ==
    /\ pc = "done" /\ out.op = "sql_any"
    /\ out.m \in Composites
    /\ combination[out.m] \in {"and", "except"}

\* C23: sql_any of an AND or EXCEPT composite returns what sql_first returns
\* for the same ep_override: the join of its children's sql_any rows on
\* measure_resolver, which does not depend on whether the combination is
\* AND or EXCEPT and keeps every key all children share.
C23_AnyOfExceptIsFirst ==
    AnyOfAndOrExcept =>
        /\ out.res = sql_first(out.m, out.ep)
        /\ out.res.ok
            => /\ out.res.rows = JoinAll([i \in ChildIdx |-> ChildRows(i)])
               /\ ResolverKeys(out.res.rows)
                  = {k \in ResolverKeys(ChildRows(1)) :
                        \A i \in ChildIdx : k \in ResolverKeys(ChildRows(i))}

\* C23 witness: sql_any of an EXCEPT composite returned a key that its second
\* child has as well
C23_Witness ==
    /\ AnyOfAndOrExcept /\ out.res.ok
    /\ combination[out.m] = "except"
    /\ \E k \in ResolverKeys(out.res.rows) : k \in ResolverKeys(ChildRows(2))

\* the latest call was sql_first on a composite and returned a query
FirstOfComposite == Returned("sql_first") /\ out.m \in Composites

\* number of rows of B whose measure_resolver is k
RowsWithKey(B, k) == SumOver({r \in DOMAIN B : r.measure_resolver = k}, B)

\* C24: sql_first of a composite returns at most one row per
\* measure_resolver key.
C24_FirstHasOneRowPerKey ==
    FirstOfComposite =>
        \A k \in ResolverKeys(out.res.rows) : RowsWithKey(out.res.rows, k) = 1

\* C25: sql_first of an OR composite contains every measure_resolver key of
\* the same measure's sql_any.
C25_OrFirstKeepsEveryAnyKey ==
    (FirstOfComposite /\ combination[out.m] = "or")
    => ResolverKeys(sql_any(out.m, out.ep).rows)
       \subseteq ResolverKeys(out.res.rows)

\* C26: an execute with a non-empty people argument that returns, returns
\* only rows of those people and leaves them as the measure's members.
C26_PeopleRestrictsEveryCall ==
    (ret.op = "execute" /\ ~ret.raised /\ ret.people # {})
    => /\ \A r \in DOMAIN ret.obj.rows : r.person_id \in ret.people
       /\ members[ret.m] = ret.obj

\* this step is one MeasureExecutor.execute call
ExecuteStep == ncalls' = ncalls + 1 /\ ret'.op = "execute"

\* C27: an execute that raises leaves the executor's cache and the members
\* of every measure as they were.
C27_RaisingExecuteChangesNothing ==
    [][(ExecuteStep /\ ret'.raised)
        => cache' = cache /\ members' = members]_vars

\* C27 witness: a force_refresh execute raised on a measure that is still
\* cached and still has its members
C27_Witness ==
    /\ ret.op = "execute" /\ ret.raised /\ ret.force
    /\ ret.m \in DOMAIN cache[ret.e]
    /\ members[ret.m] = cache[ret.e][ret.m]
    /\ members[ret.m] # None

\* C28: an execute of m changes no other measure's members and no other
\* cache entry.
C28_ExecuteTouchesOnlyItsMeasure ==
    [][ExecuteStep
        => /\ \A k \in MeasureIds \ {ret'.m} : members'[k] = members[k]
           /\ \A e \in Executors \ {ret'.e} : cache'[e] = cache[e]
           /\ \A k \in MeasureIds \ {ret'.m} :
                 /\ k \in DOMAIN cache'[ret'.e] <=> k \in DOMAIN cache[ret'.e]
                 /\ k \in DOMAIN cache[ret'.e]
                      => cache'[ret'.e][k] = cache[ret'.e][k]]_vars

\* C28 witness: a composite was executed and its children, one of them a
\* composite itself, have no members and no cache entry
C28_Witness ==
    /\ ret.op = "execute" /\ ~ret.raised /\ ret.m = 4
    /\ ret.obj.rows # EmptyBag
    /\ members[4] = ret.obj
    /\ \A k \in {1, 2, 3} : members[k] = None
    /\ DOMAIN cache[ret.e] = {4}

\* C29: Report.execute of a report whose measures include the full cohort
\* (measure_id 0) completes without error when no store call fails, and the
\* full cohort is not passed to MeasureExecutor.execute.
C29_ReportWithFullCohortCompletes ==
    (/\ ret.op = "report_execute"
     /\ \E i \in DOMAIN report_measures(ret.r) : report_measures(ret.r)[i] = 0
     /\ ~ret.store_failed)
    => /\ ~ret.raised
       /\ \A i \in DOMAIN ret.passed : ret.passed[i] # 0

\* the (measure_resolver, measure_date) pairs of the rows of B, as a bag
DatedKeys(B) ==
    SelectWhere(B, LAMBDA r : [measure_resolver |-> r.measure_resolver,
                               measure_date |-> r.measure_date],
                LAMBDA r : TRUE)

\* the child lists that are permutations of q
Permuted(q) ==
    {[i \in DOMAIN q |-> q[p[i]]] :
        p \in {f \in [DOMAIN q -> DOMAIN q] :
                  \A i, j \in DOMAIN q : i # j => f[i] # f[j]}}

\* C30: sql_first of an AND composite returns the same multiset of
\* (measure_resolver, measure_date) pairs for every order of its children.
C30_FirstIsOrderIndependent ==
    (pc = "done" /\ out.op = "sql_first" /\ out.res.ok)
    => \A q \in Permuted(out.children) :
          /\ first_of_children(q, out.ep).ok
          /\ DatedKeys(first_of_children(q, out.ep).rows)
             = DatedKeys(out.res.rows)

\* C30 witness: three children with different row sets whose join returned
\* a row several times, dated later than the first child's row
C30_Witness ==
    /\ pc = "done" /\ out.op = "sql_first" /\ out.res.ok
    /\ Len(out.children) = 3
    /\ \E r \in DOMAIN out.res.rows :
          /\ out.res.rows[r] > 1
          /\ \E x \in DOMAIN sql_any(out.children[1], out.ep).rows :
                x.measure_date < r.measure_date
    /\ sql_any(out.children[1], out.ep).rows
       # sql_any(out.children[2], out.ep).rows

\* C8: with person_ep_override set on a measure, every row its sql_any,
\* sql_first or sql_undated produces from the leaves below it has
\* measure_resolver equal to the row's person_id.
C8_OverrideForcesPersonResolver ==
    (/\ pc = "done"
     /\ out.op \in {"sql_any", "sql_first", "sql_undated"}
     /\ out.res.ok
     /\ person_ep_override[out.m])
    => \A r \in DOMAIN out.res.rows : r.measure_resolver = r.person_id

\* C9: table_selectables(ep_override = TRUE) labels the binding's person id
\* column as both episode_id and measure_resolver; with FALSE both are the
\* binding's episode id column.
C9_TableSelectablesCollapse ==
    (pc = "done" /\ out.op = "table_selectables")
    => IF out.ep
       THEN /\ out.res.episode_id = out.cls.person_id_col
            /\ out.res.measure_resolver = out.cls.person_id_col
       ELSE /\ out.res.episode_id = out.cls.episode_id_col
            /\ out.res.measure_resolver = out.cls.episode_id_col

\* a shape compiles: fn() returns a statement and rendering it succeeds
Compiles(l) == VariantSQL(out.m, l).ok /\ l \notin out.render_fails
Shapes == {"ANY", "FIRST", "UNDATED"}

\* PASS iff all shapes compile, FAIL iff none, WARN otherwise, and
\* failed_variants has an error text for exactly the failed shapes
Classified ==
    /\ out.res.status \in {"pass", "warn", "fail"}
    /\ out.res.status = "pass" <=> \A l \in Shapes : Compiles(l)
    /\ out.res.status = "fail" <=> \A l \in Shapes : ~Compiles(l)
    /\ DOMAIN out.res.failed_variants = {l \in Shapes : ~Compiles(l)}
    /\ \A l \in DOMAIN out.res.failed_variants : out.res.failed_variants[l] # ""

\* C10 as stated: is_executable classifies every measure by its three
\* compilations.
C10_ClassifiesEveryMeasure ==
    (pc = "done" /\ out.op = "is_executable") => Classified

\* C10 amended: is_executable classifies every measure other than the full
\* cohort (measure_id 0) by its three compilations; for measure_id 0 it
\* returns PASS with ok_variants = [FULL_COHORT] and no failed variant
\* without compiling anything.
C10_ClassifiesExceptFullCohort ==
    (pc = "done" /\ out.op = "is_executable")
    => IF Measures[out.m].measure_id # 0
       THEN Classified
       ELSE /\ out.res.status = "pass"
            /\ out.res.ok_variants = <<"FULL_COHORT">>
            /\ out.res.failed_variants = <<>>

\* C10 witnesses: a WARN result, some shape compiling and some not
C10_Witness ==
    /\ pc = "done" /\ out.op = "is_executable"
    /\ Measures[out.m].measure_id # 0
    /\ out.res.status = "warn"
    /\ \E l \in Shapes : Compiles(l)
    /\ \E l \in Shapes : ~Compiles(l)

====
